---- MODULE Spec2Model ----
(***************************************************************************)
(* Model of the data-shaping logic of two components:                      *)
(*   - Members (roster of team members and pending invitations, edit and   *)
(*     invite modals, last-admin flag), src/unnamed/part_000 lines 71-352; *)
(*   - HostFeesSection (monthly host-fee series, selectable years, the     *)
(*     element rendered), src/unnamed/part_000 lines 559-628 (the same     *)
(*     functions are in src/unnamed/part_001).                             *)
(*                                                                         *)
(* JavaScript values are represented as follows.                           *)
(*   undefined        the string Undefined                                 *)
(*   an optional list [defined |-> BOOLEAN, value |-> sequence]            *)
(*   a record         a TLA+ record with one field per property read by    *)
(*                    the code; a missing property holds Undefined         *)
(*   a referenced     the id of that account (the only property of it the  *)
(*   account          logic reads)                                         *)
(*   `a-${b}`         the pair <<"a-", b>>                                 *)
(*   x / 100          the fraction [num |-> x, den |-> 100]                *)
(*   array index i    position i + 1 of the sequence                       *)
(*   array identity   a number: 0 for null, 1 or 2 for an array            *)
(*   a string that    the sequence of its characters                       *)
(*   is parsed                                                             *)
(***************************************************************************)
EXTENDS Integers, Sequences, FiniteSets, TLC

VARIABLES
    pc,                 \* "new" before the Members constructor ran, then "mounted"
    data,               \* Members: props.data (the query result: flags, the two
                        \* lists and the identity of each list)
    members,            \* Members: state.members (the roster)
    currentMember,      \* Members: state.currentMember
    currentMemberKey,   \* Members: state.currentMemberKey
    currentModalKey,    \* Members: state.currentModalKey
    showInviteModal,    \* Members: state.showInviteModal
    showEditModal,      \* Members: state.showEditModal
    timeSeries,         \* HostFeesSection: host.hostMetricsTimeSeries
    tzShift,            \* HostFeesSection: the viewer's offset from UTC (sign)
    series,             \* HostFeesSection: the value of getSeriesFromData
    hostQuery,          \* HostFeesSection: the result of useQuery
    currentYear,        \* HostFeesSection: new Date().getFullYear()
    yearsOptions,       \* HostFeesSection: the value of getActiveYearsOptions
    hostFeesElement,    \* HostFeesSection: the element returned, "none" before
    stepProps,          \* ContributionFlowStepsProgress: the props
    stepsProgress,      \* ContributionFlowStepsProgress: the props given to
                        \* StepsProgress
    selectedYear,       \* HostFeesSection: the selectedYear state
    variables,          \* HostFeesSection: the variables of the query
    apollo,             \* HostFeesSection: the client behind useQuery
    memo,               \* HostFeesSection: the caches of its useMemo calls
    instances,          \* Members: the roster of each mounted instance and
                        \* the renders it has had
    idsCache            \* Members: the cache of each instance's
                        \* getMembersCollectiveIds

memberVars == <<pc, data, members, currentMember, currentMemberKey,
                currentModalKey, showInviteModal, showEditModal>>
feeVars == <<timeSeries, tzShift, series, hostQuery, currentYear, yearsOptions,
             hostFeesElement>>
vars == <<pc, data, members, currentMember, currentMemberKey, currentModalKey,
          showInviteModal, showEditModal, timeSeries, tzShift, series, hostQuery,
          currentYear, yearsOptions, hostFeesElement, stepProps, stepsProgress,
          selectedYear, variables, apollo, memo, instances, idsCache>>
stepVars == <<stepProps, stepsProgress>>
sessionVars == <<selectedYear, variables, apollo, memo>>
memoVars == <<instances, idsCache>>

-----------------------------------------------------------------------------
(* Bounds of the model. *)

MaxMembers == 2       \* longest member list given to the constructor
MaxInvitations == 2   \* longest invitation list given to the constructor
MaxRoster == 2        \* most records (members + invitations) of a mounted component

-----------------------------------------------------------------------------
(* JavaScript values. *)

Undefined == "undefined"

\* `if (x)` for the values the model holds: strings (ids) and undefined.
Truthy(v) == v # Undefined /\ v # ""

Absent == [defined |-> FALSE, value |-> <<>>]
Some(v) == [defined |-> TRUE, value |-> v]

\* lodash get(object, path, defaultValue): the default replaces an undefined
\* resolved value only.
Get(opt, default) == IF opt.defined THEN opt.value ELSE default

ADMIN == "ADMIN"
Roles == {ADMIN, "MEMBER"}
Ids == {"1", "2"}
AccountIds == {"10", "20"}
ModalKeys == {"hide-md-lg", "hide-xs-sm"}

\* {} : an object with no property.
EmptyObject ==
    [id |-> Undefined, role |-> Undefined, typename |-> Undefined,
     account |-> Undefined, memberAccount |-> Undefined]

\* The account of each member (a member's account is fixed by the member).
AccountOfMember == [i \in Ids |-> IF i = "1" THEN "30" ELSE "40"]

\* A node of account.members.nodes (fragment MemberFields).
MemberRecords ==
    {[id |-> i, role |-> r, typename |-> "Member",
      account |-> AccountOfMember[i], memberAccount |-> Undefined] :
        i \in Ids, r \in Roles}

\* An element of memberInvitations.
InvitationRecords ==
    {[id |-> i, role |-> r, typename |-> "MemberInvitation",
      account |-> Undefined, memberAccount |-> a] :
        i \in Ids, r \in Roles, a \in AccountIds}

SeqsUpTo(S, n) == UNION {[1..k -> S] : k \in 0..n}

\* omit that drops nothing: the invitation keeps its id.
OmitId_Nothing(i) == i

\* lodash omit(object, ['id'])
OmitId(i) ==
    [i EXCEPT !.id = Undefined]

\* pendingInvitations.map(i => omit(i, ['id']))
OmitIds(s) == [k \in 1..Len(s) |-> OmitId(s[k])]

-----------------------------------------------------------------------------
(* Members *)

EMPTY_MEMBERS == <<EmptyObject>>

\* getMembersFromProps returning `all` even when it is empty.
getMembersFromProps_NoPlaceholder(d) ==
    LET pendingInvitations == Get(d.memberInvitations, EMPTY_MEMBERS)
        pendingInvitationsMembersData == OmitIds(pendingInvitations)
        nodes == Get(d.members, EMPTY_MEMBERS)
    IN  nodes \o pendingInvitationsMembersData

\* getMembersFromProps spreading the invitations before the members.
getMembersFromProps_InvitationsFirst(d) ==
    LET pendingInvitations == Get(d.memberInvitations, EMPTY_MEMBERS)
        pendingInvitationsMembersData == OmitIds(pendingInvitations)
        nodes == Get(d.members, EMPTY_MEMBERS)
        all == pendingInvitationsMembersData \o nodes
    IN  IF Len(all) = 0 THEN EMPTY_MEMBERS ELSE all

getMembersFromProps(d) ==
    LET pendingInvitations == Get(d.memberInvitations, EMPTY_MEMBERS)
        pendingInvitationsMembersData == OmitIds(pendingInvitations)
        nodes == Get(d.members, EMPTY_MEMBERS)
        all == nodes \o pendingInvitationsMembersData
    IN  IF Len(all) = 0 THEN EMPTY_MEMBERS ELSE all

\* `member-${id}` or `collective-${collectiveId}` in renderMember.
memberKey(member) ==
    LET collectiveId == member.memberAccount
    IN  IF Truthy(member.id) THEN <<"member-", member.id>>
        ELSE <<"collective-", collectiveId>>

\* handleShowModalChange always building the `collective-` key.
modalMemberKey_CollectiveOnly(member) == <<"collective-", member.memberAccount>>

\* The same template in handleShowModalChange.
modalMemberKey(member) ==
    LET collectiveId == member.memberAccount
    IN  IF Truthy(member.id) THEN <<"member-", member.id>>
        ELSE <<"collective-", collectiveId>>

IsAdminWithId(m) == m.role = ADMIN /\ Truthy(m.id)

IsAdmin(m) == m.role = ADMIN

\* The filter without its `&& m.id`.
nbAdmins_NoIdCheck(roster) == Len(SelectSeq(roster, IsAdmin))

\* members.filter(m => m.role === roles.ADMIN && m.id).length
nbAdmins(roster) == Len(SelectSeq(roster, IsAdminWithId))

\* this.state.currentMember?.x
OptionalChain(opt, field) == IF opt.defined THEN opt.value[field] ELSE Undefined

\* The flag without its `&& currentMember?.id`.
isLastAdmin_NoIdCheck(n, cur) == n = 1 /\ OptionalChain(cur, "role") = ADMIN

\* nbAdmins === 1 && currentMember?.role === roles.ADMIN && currentMember?.id,
\* as the condition it is used as (its value is the id when all three hold).
isLastAdmin(n, cur) ==
    /\ n = 1
    /\ OptionalChain(cur, "role") = ADMIN
    /\ Truthy(OptionalChain(cur, "id"))

\* object[name]: reading a property the object does not have gives undefined.
\* The query (fragment MemberFields, memberInvitations) fetches no property
\* `member`: a member carries `account`, an invitation `memberAccount`.
Prop(object, name) == IF name \in DOMAIN object THEN object[name] ELSE Undefined

\* member => member.member && member.member.id
MemberCollectiveId(member) ==
    LET referenced == Prop(member, "member")
    IN  IF Truthy(referenced) THEN Prop(referenced, "id") ELSE referenced

\* getMembersCollectiveIds = memoizeOne(members => members.map(...)): the
\* value returned for a roster.
getMembersCollectiveIds(roster) ==
    [k \in 1..Len(roster) |-> MemberCollectiveId(roster[k])]

NoMember == [defined |-> FALSE, value |-> EmptyObject]
NoKey == <<>>

MemberLists == {Absent} \cup {Some(s) : s \in SeqsUpTo(MemberRecords, MaxMembers)}
InvitationLists ==
    {Absent} \cup {Some(s) : s \in SeqsUpTo(InvitationRecords, MaxInvitations)}

\* The identity of an array: null for an absent list, and two identities that
\* tell an array from the one it replaces.
NullRef == 0
RefOf(list) == IF list.defined THEN 1 ELSE NullRef
FreshRef(old) == IF old = 1 THEN 2 ELSE 1

\* props.data of a loaded query: data.account.members.nodes, data.memberInvitations,
\* data.loading, data.error and data.account.parentAccount.
Loaded(nodes, invitations) ==
    [members |-> nodes, memberInvitations |-> invitations,
     membersRef |-> RefOf(nodes), memberInvitationsRef |-> RefOf(invitations),
     loading |-> FALSE, error |-> Undefined, parentAccount |-> Undefined]

\* props.data while the query is loading: no list yet.
NoData == [Loaded(Absent, Absent) EXCEPT !.loading = TRUE]
NoSeries == <<>>
NoTimeSeries == [hostFees |-> Absent, hostFeeShare |-> Absent]

\* A step of the contribution flow, and the props before the component is
\* rendered.
NoStep == [defined |-> FALSE, value |-> [name |-> Undefined, index |-> -1]]
NoStepProps ==
    [steps |-> <<>>, currentStep |-> NoStep.value, lastVisitedStep |-> NoStep.value,
     loading |-> FALSE, isSubmitted |-> FALSE]
NoElement ==
    [rendered |-> FALSE, steps |-> <<>>, focus |-> NoStep.value, allCompleted |-> FALSE,
     onStepSelect |-> Undefined, loadingStep |-> NoStep, disabledStepNames |-> <<>>]

\* ContributionFlowStepsProgress not rendered.
StepsIdle ==
    /\ stepProps = NoStepProps
    /\ stepsProgress = NoElement

\* The mounted instances of Members.
Instances == {1, 2}

\* A memoized function before its first call.
NoCache == [defined |-> FALSE, arg |-> 0, result |-> <<>>, resultRef |-> 0]

\* No instance of Members is mounted.
MemoIdle ==
    /\ instances =
            [i \in Instances |->
                [mounted |-> FALSE, members |-> <<>>, membersRef |-> 0, renders |-> 0]]
    /\ idsCache = [i \in Instances |-> NoCache]

\* A useMemo before the first render.
NoMemo == [defined |-> FALSE, deps |-> 0, value |-> <<>>]
NoVariables == [hostSlug |-> Undefined, dateFrom |-> <<>>, dateTo |-> <<>>]
NoApollo ==
    [results |-> <<>>, cache |-> {}, inFlight |-> {}, dataYear |-> 0, previousYear |-> 0]

\* HostFeesSection not mounted.
SessionIdle ==
    /\ selectedYear = 0
    /\ variables = NoVariables
    /\ apollo = NoApollo
    /\ memo = [series |-> NoMemo, yearsOptions |-> NoMemo]

\* No host: data?.host of a result without data.
NoHost ==
    [defined |-> FALSE,
     value |-> [createdAt |-> <<>>, hostMetricsTimeSeries |-> NoTimeSeries]]
NoQueryData == [defined |-> FALSE, value |-> [host |-> NoHost]]
NoHostQuery ==
    [loading |-> TRUE, error |-> Undefined, data |-> NoQueryData,
     previousData |-> NoQueryData]
NoOptions == <<>>

\* HostFeesSection not rendered.
SectionIdle ==
    /\ hostQuery = NoHostQuery
    /\ currentYear = 2022
    /\ yearsOptions = NoOptions
    /\ hostFeesElement = "none"

FeesIdle ==
    /\ timeSeries = NoTimeSeries
    /\ tzShift = 0
    /\ series = NoSeries
    /\ SectionIdle

\* props.data after a getMembersFromProps that deletes the id of each
\* invitation in place.
PropsAfterGetMembers_DeleteInPlace(d) ==
    [d EXCEPT !.memberInvitations =
        IF @.defined THEN Some(OmitIds(@.value)) ELSE @]

\* props.data after getMembersFromProps(props): get only reads, map and omit
\* return a new array of new objects, and the spread builds a new array.
PropsAfterGetMembers(d) ==
    d

\* render with the parent account tested before the error.
render_ParentBeforeError(d) ==
    IF d.loading THEN "Loading"
    ELSE IF Truthy(d.parentAccount) THEN "DefinedInParent"
    ELSE IF Truthy(d.error) THEN "Error"
    ELSE "Section"

\* render(): the element returned, <Loading />, the error message box, the
\* "defined in parent" message box or renderSection().
render(d) ==
    IF d.loading THEN "Loading"
    ELSE IF Truthy(d.error) THEN "Error"
    ELSE IF Truthy(d.parentAccount) THEN "DefinedInParent"
    ELSE "Section"

\* constructor(props)
Constructor ==
    /\ pc = "new"
    /\ pc' = "mounted"
    /\ members' = getMembersFromProps(data)
    /\ currentMember' = NoMember
    /\ showInviteModal' = FALSE
    /\ showEditModal' = FALSE
    /\ data' = PropsAfterGetMembers(data)
    /\ UNCHANGED <<currentMemberKey, currentModalKey, feeVars, stepVars, sessionVars, memoVars>>

Unmounted ==
    /\ pc = "new"
    /\ members = <<>>
    /\ currentMember = NoMember
    /\ currentMemberKey = NoKey
    /\ currentModalKey = Undefined
    /\ showInviteModal = FALSE
    /\ showEditModal = FALSE

\* The constructor applied to every pair of lists the query can return.
InitRoster ==
    /\ data \in {Loaded(nodes, invitations) :
                    nodes \in MemberLists, invitations \in InvitationLists}
    /\ Unmounted
    /\ StepsIdle
    /\ SessionIdle
    /\ MemoIdle
    /\ FeesIdle

NextRoster == Constructor

SpecRoster == InitRoster /\ [][NextRoster]_vars

-----------------------------------------------------------------------------
(* The mounted component: new query results and the modal handlers. *)

RemoveAt(s, k) == SubSeq(s, 1, k - 1) \o SubSeq(s, k + 1, Len(s))

\* A refetched list differs from the previous one by at most one record.
Edits(s, Recs) ==
    {s} \cup {Append(s, r) : r \in Recs}
        \cup {RemoveAt(s, k) : k \in 1..Len(s)}
        \cup {[s EXCEPT ![k] = r] : k \in 1..Len(s), r \in Recs}

UniqueIds(s) == \A j, k \in 1..Len(s) : s[j].id = s[k].id => j = k

ListSize(opt) == Len(Get(opt, <<>>))

\* What the data source can return: record ids are unique within a list.
DataOk(d) ==
    /\ UniqueIds(Get(d.members, <<>>))
    /\ UniqueIds(Get(d.memberInvitations, <<>>))
    /\ ListSize(d.members) + ListSize(d.memberInvitations) <= MaxRoster

RecordsOf(field) == IF field = "members" THEN MemberRecords ELSE InvitationRecords

RefField(field) == IF field = "members" THEN "membersRef" ELSE "memberInvitationsRef"

\* componentDidUpdate comparing the contents of the lists.
componentDidUpdate_DeepEqual(oldData, newData) ==
    IF \/ newData.memberInvitations # oldData.memberInvitations
       \/ newData.members # oldData.members
    THEN getMembersFromProps(newData)
    ELSE members

\* componentDidUpdate(oldProps): the value of state.members after it. The
\* lists are compared by identity; get(..., null) of an absent list is null.
componentDidUpdate(oldData, newData) ==
    LET invitations == newData.memberInvitationsRef
        oldInvitations == oldData.memberInvitationsRef
        nodes == newData.membersRef
        oldMembers == oldData.membersRef
    IN  IF invitations # oldInvitations \/ nodes # oldMembers
        THEN getMembersFromProps(newData)
        ELSE members

\* props.data after componentDidUpdate, which calls getMembersFromProps when
\* a list is another array.
PropsAfterUpdate(oldData, newData) ==
    IF \/ newData.memberInvitationsRef # oldData.memberInvitationsRef
       \/ newData.membersRef # oldData.membersRef
    THEN PropsAfterGetMembers(newData)
    ELSE newData

\* The query delivers a result in which one of the lists is a new array (or
\* is absent); React then calls componentDidUpdate with the previous props.
DataUpdate ==
    /\ pc = "mounted"
    /\ \E field \in {"members", "memberInvitations"} :
         \E new \in {Absent} \cup
                     {Some(t) : t \in Edits(Get(data[field], <<>>), RecordsOf(field))} :
            LET newRef == IF new.defined THEN FreshRef(data[RefField(field)]) ELSE NullRef
                newData == [data EXCEPT ![field] = new, ![RefField(field)] = newRef,
                                        !.loading = FALSE]
            IN  /\ DataOk(newData)
                /\ data' = PropsAfterUpdate(data, newData)
                /\ members' = componentDidUpdate(data, newData)
    /\ UNCHANGED <<pc, currentMember, currentMemberKey, currentModalKey,
                   showInviteModal, showEditModal, feeVars, stepVars, sessionVars, memoVars>>

\* handleShowModalChange('edit', value, memberIdx, currentModalKey), called
\* from the buttons and modals of renderSection.
HandleShowModalChangeEdit ==
    /\ pc = "mounted"
    /\ render(data) = "Section"
    /\ \E value \in BOOLEAN, memberIdx \in 0..Len(members), modalKey \in ModalKeys :
         IF memberIdx + 1 \in DOMAIN members
         THEN /\ showEditModal' = value
              /\ currentMember' = Some(members[memberIdx + 1])
              /\ currentMemberKey' = modalMemberKey(members[memberIdx + 1])
              /\ currentModalKey' = modalKey
         ELSE /\ showEditModal' = value
              /\ UNCHANGED <<currentMember, currentMemberKey, currentModalKey>>
    /\ UNCHANGED <<pc, data, members, showInviteModal, feeVars, stepVars, sessionVars, memoVars>>

\* handleShowModalChange('invite', value) that also closes the edit modal.
HandleShowModalChangeInvite_ClosesEdit ==
    /\ pc = "mounted"
    /\ render(data) = "Section"
    /\ \E value \in BOOLEAN : showInviteModal' = value
    /\ showEditModal' = FALSE
    /\ UNCHANGED <<pc, data, members, currentMember, currentMemberKey, currentModalKey,
                   feeVars, stepVars, sessionVars, memoVars>>

\* handleShowModalChange('invite', value), called from renderSection.
HandleShowModalChangeInvite ==
    /\ pc = "mounted"
    /\ render(data) = "Section"
    /\ \E value \in BOOLEAN : showInviteModal' = value
    /\ UNCHANGED <<pc, data, members, currentMember, currentMemberKey, currentModalKey,
                   showEditModal, feeVars, stepVars, sessionVars, memoVars>>

\* The component is created while the query is loading: no list yet.
Init ==
    /\ data = NoData
    /\ Unmounted
    /\ StepsIdle
    /\ SessionIdle
    /\ MemoIdle
    /\ FeesIdle

Next ==
    \/ Constructor
    \/ DataUpdate
    \/ HandleShowModalChangeEdit
    \/ HandleShowModalChangeInvite

Spec == Init /\ [][Next]_vars

-----------------------------------------------------------------------------
(* Every outcome of the query: loading, error, parent account. *)

Errors == {Undefined, "GraphQL error"}
ParentAccounts == {Undefined, "50"}

RenderedMemberLists ==
    {Absent, Some(<<>>)} \cup
    {Some(<<r>>) : r \in {m \in MemberRecords : m.id = "1" /\ m.role = ADMIN}}
RenderedInvitationLists ==
    {Absent, Some(<<>>)} \cup
    {Some(<<r>>) : r \in {i \in InvitationRecords :
                              i.id = "2" /\ i.role = ADMIN /\ i.memberAccount = "10"}}

\* The results of the query. A parent account is a property of data.account,
\* which also holds the member nodes.
QueryResults ==
    {r \in {[Loaded(nodes, invitations) EXCEPT
                 !.loading = loading, !.error = error, !.parentAccount = parent] :
               nodes \in RenderedMemberLists, invitations \in RenderedInvitationLists,
               loading \in BOOLEAN, error \in Errors, parent \in ParentAccounts} :
        Truthy(r.parentAccount) => r.members.defined}

\* The query delivers a whole new result (new arrays); React then calls
\* componentDidUpdate with the previous props.
QueryResult ==
    /\ pc = "mounted"
    /\ \E r \in QueryResults :
         LET newData ==
                [r EXCEPT
                    !.membersRef =
                        IF r.members.defined THEN FreshRef(data.membersRef) ELSE NullRef,
                    !.memberInvitationsRef =
                        IF r.memberInvitations.defined
                        THEN FreshRef(data.memberInvitationsRef) ELSE NullRef]
         IN  /\ data' = PropsAfterUpdate(data, newData)
             /\ members' = componentDidUpdate(data, newData)
    /\ UNCHANGED <<pc, currentMember, currentMemberKey, currentModalKey,
                   showInviteModal, showEditModal, feeVars, stepVars, sessionVars, memoVars>>

NextRender ==
    \/ Constructor
    \/ QueryResult
    \/ HandleShowModalChangeEdit
    \/ HandleShowModalChangeInvite

SpecRender == Init /\ [][NextRender]_vars

-----------------------------------------------------------------------------
(* A caller that changes the contents of a list in place. *)

\* array.push(record), array.splice(k, 1)
InPlaceEdits(s, Recs) ==
    {Append(s, r) : r \in Recs} \cup {RemoveAt(s, k) : k \in 1..Len(s)}

\* A record is pushed on or spliced out of a list in place: the array keeps
\* its identity. The component then updates (componentDidUpdate).
MutateInPlace ==
    /\ pc = "mounted"
    /\ \E field \in {"members", "memberInvitations"} :
         /\ data[field].defined
         /\ \E t \in InPlaceEdits(data[field].value, RecordsOf(field)) :
              LET newData == [data EXCEPT ![field] = Some(t)]
              IN  /\ DataOk(newData)
                  /\ data' = PropsAfterUpdate(data, newData)
                  /\ members' = componentDidUpdate(data, newData)
    /\ UNCHANGED <<pc, currentMember, currentMemberKey, currentModalKey,
                   showInviteModal, showEditModal, feeVars, stepVars, sessionVars, memoVars>>

NextInPlace ==
    \/ Constructor
    \/ DataUpdate
    \/ MutateInPlace

SpecInPlace == Init /\ [][NextInPlace]_vars

-----------------------------------------------------------------------------
(* HostFeesSection: the monthly series of a year. *)

Months == 12          \* new Array(12)
MaxFeeNodes == 2      \* longest hostFees.nodes
MaxShareNodes == 2    \* longest hostFeeShare.nodes

MonthSlots == 0..(Months - 1)

\* A number x / 100, and the numbers 0 and x.
Div100(x) == [num |-> x, den |-> 100]
Number(x) == [num |-> x, den |-> 1]
NumEq(a, b) == a.num * b.den = b.num * a.den

\* The query's time unit is MONTH: the date of a node is the first instant of
\* a month, in UTC. A date is represented by that month, 0 to 11.
FeeMonths == {0, 5}
TzShifts == {-1, 0, 1}     \* west of UTC, UTC, east of UTC
FeeCents == {1000, 250}
ShareCents == {300, -300}
SettlementStatuses == {"INVOICED", "SETTLED"}

Amount(c) == [value |-> Div100(c), valueInCents |-> c, currency |-> "USD"]

HostFeeNodes ==
    {[date |-> m, amount |-> Amount(c), settlementStatus |-> Undefined] :
        m \in FeeMonths, c \in FeeCents}

HostFeeShareNodes ==
    {[date |-> m, amount |-> Amount(c), settlementStatus |-> st] :
        m \in FeeMonths, c \in ShareCents, st \in SettlementStatuses}

\* new Date(date).getMonth(): the month of the instant in the viewer's time
\* zone. West of UTC the first instant of a UTC month is in the month before.
getMonth(date) == IF tzShift < 0 THEN (date + Months - 1) % Months ELSE date

\* The reducer of getHostFeesWithoutShare storing the amount instead of adding it.
ShareReduceStep_Overwrite(result, node) ==
    LET monthKey == getMonth(node.date)
    IN  [k \in DOMAIN result \cup {monthKey} |->
            IF k = monthKey THEN node.amount.valueInCents ELSE result[k]]

\* result[monthKey] = (result[monthKey] || 0) + node.amount.valueInCents
ShareReduceStep(result, node) ==
    LET monthKey == getMonth(node.date)
        previous == IF monthKey \in DOMAIN result THEN result[monthKey] ELSE 0
    IN  [k \in DOMAIN result \cup {monthKey} |->
            IF k = monthKey THEN previous + node.amount.valueInCents ELSE result[k]]

RECURSIVE Reduce(_, _)
Reduce(nodes, result) ==
    IF nodes = <<>> THEN result
    ELSE Reduce(Tail(nodes), ShareReduceStep(result, Head(nodes)))

\* {} : the reducer's initial object, a function with no key.
NoTotals == [k \in {} |-> 0]

\* The body of the map setting valueInCents and leaving the value of the
\* gross record.
WithoutShare_StaleValue(node, totalHostFeeSharePerMonthInCents) ==
    LET monthKey == getMonth(node.date)
    IN  IF /\ monthKey \in DOMAIN totalHostFeeSharePerMonthInCents
           /\ totalHostFeeSharePerMonthInCents[monthKey] # 0
        THEN [node EXCEPT !.amount.valueInCents =
                  @ - totalHostFeeSharePerMonthInCents[monthKey]]
        ELSE node

\* The body of hostFeeNodes.map in getHostFeesWithoutShare.
WithoutShare(node, totalHostFeeSharePerMonthInCents) ==
    LET monthKey == getMonth(node.date)
    IN  IF /\ monthKey \in DOMAIN totalHostFeeSharePerMonthInCents
           /\ totalHostFeeSharePerMonthInCents[monthKey] # 0
        THEN LET valueInCents ==
                    node.amount.valueInCents - totalHostFeeSharePerMonthInCents[monthKey]
             IN  [node EXCEPT !.amount.valueInCents = valueInCents,
                              !.amount.value = Div100(valueInCents)]
        ELSE node

getHostFeesWithoutShare(hostFeeNodes, hostFeeShareNodes) ==
    LET totalHostFeeSharePerMonthInCents == Reduce(hostFeeShareNodes, NoTotals)
    IN  [k \in 1..Len(hostFeeNodes) |->
            WithoutShare(hostFeeNodes[k], totalHostFeeSharePerMonthInCents)]

\* The forEach of dataToSeries on an array that was not filled: only the
\* written slots exist.
RECURSIVE ForEachWrite_Sparse(_, _)
ForEachWrite_Sparse(nodes, slots) ==
    IF nodes = <<>> THEN slots
    ELSE LET m == getMonth(Head(nodes).date)
         IN  ForEachWrite_Sparse(Tail(nodes),
                [k \in DOMAIN slots \cup {m} |->
                    IF k = m THEN Head(nodes).amount.value ELSE slots[k]])

\* The forEach writing the records from the last to the first: the first
\* record of a month wins.
RECURSIVE ForEachWrite_FirstWins(_, _)
ForEachWrite_FirstWins(nodes, slots) ==
    IF nodes = <<>> THEN slots
    ELSE [ForEachWrite_FirstWins(Tail(nodes), slots)
            EXCEPT ![getMonth(Head(nodes).date)] = Head(nodes).amount.value]

\* data?.forEach(({ date, amount }) => (series[new Date(date).getMonth()] = amount.value))
RECURSIVE ForEachWrite(_, _)
ForEachWrite(nodes, slots) ==
    IF nodes = <<>> THEN slots
    ELSE ForEachWrite(Tail(nodes),
            [slots EXCEPT ![getMonth(Head(nodes).date)] = Head(nodes).amount.value])

dataToSeries_NoFill(nodes) == ForEachWrite_Sparse(nodes, NoTotals)

dataToSeries(nodes) == ForEachWrite(nodes, [m \in MonthSlots |-> Number(0)])

\* The keys of lodash groupBy(nodes, 'settlementStatus'), in the order of
\* Object.entries: the order in which each status is first seen.
RECURSIVE StatusKeys(_, _)
StatusKeys(nodes, seen) ==
    IF nodes = <<>> THEN seen
    ELSE LET st == Head(nodes).settlementStatus
         IN  StatusKeys(Tail(nodes),
                IF \E k \in DOMAIN seen : seen[k] = st THEN seen ELSE Append(seen, st))

HasStatus(node, status) == node.settlementStatus = status

\* A group that holds every record, whatever its status.
Group_AnyStatus(nodes, status) == nodes

\* The group of one key of groupBy.
Group(nodes, status) ==
    LET Test(node) == HasStatus(node, status) IN SelectSeq(nodes, Test)

\* getSeriesFromData reading hostFees.nodes and hostFeeShare.nodes without a
\* default: with an absent list the call throws and no series is returned.
getSeriesFromData_NoDefault(ts) ==
    IF ~ts.hostFees.defined \/ ~ts.hostFeeShare.defined
    THEN <<>>
    ELSE LET statuses == StatusKeys(ts.hostFeeShare.value, <<>>)
         IN  <<[name |-> <<"Host profit">>,
                data |-> dataToSeries(getHostFeesWithoutShare(ts.hostFees.value,
                                                              ts.hostFeeShare.value))]>>
             \o [k \in 1..Len(statuses) |->
                     [name |-> <<"Host fee share (", statuses[k], ")">>,
                      data |-> dataToSeries(Group(ts.hostFeeShare.value, statuses[k]))]]

getSeriesFromData(ts) ==
    LET hostFeeNodes == Get(ts.hostFees, <<>>)
        hostFeeShareNodes == Get(ts.hostFeeShare, <<>>)
        statuses == StatusKeys(hostFeeShareNodes, <<>>)
    IN  <<[name |-> <<"Host profit">>,
           data |-> dataToSeries(getHostFeesWithoutShare(hostFeeNodes, hostFeeShareNodes))]>>
        \o [k \in 1..Len(statuses) |->
                [name |-> <<"Host fee share (", statuses[k], ")">>,
                 data |-> dataToSeries(Group(hostFeeShareNodes, statuses[k]))]]

\* timeSeries after getSeriesFromData(intl, timeSeries): the reduce writes in
\* its own accumulator, the map returns a node as it is or a new object built
\* by spreading, groupBy builds new arrays and dataToSeries fills its own.
TimeSeriesAfterGetSeries(ts) ==
    ts

HostFeesLists == {Absent} \cup {Some(s) : s \in SeqsUpTo(HostFeeNodes, MaxFeeNodes)}
HostFeeShareLists ==
    {Absent} \cup {Some(s) : s \in SeqsUpTo(HostFeeShareNodes, MaxShareNodes)}

\* const series = React.useMemo(() => getSeriesFromData(intl, timeSeries), [timeSeries])
ComputeSeries ==
    /\ series = NoSeries
    /\ series' = getSeriesFromData(timeSeries)
    /\ timeSeries' = TimeSeriesAfterGetSeries(timeSeries)
    /\ UNCHANGED <<memberVars, stepVars, sessionVars, memoVars, tzShift, hostQuery,
                   currentYear, yearsOptions, hostFeesElement>>

\* getSeriesFromData applied to every time series the query can return, in
\* every time zone.
InitFees ==
    /\ timeSeries \in [hostFees : HostFeesLists, hostFeeShare : HostFeeShareLists]
    /\ tzShift \in TzShifts
    /\ series = NoSeries
    /\ SectionIdle
    /\ data = NoData
    /\ Unmounted
    /\ StepsIdle
    /\ SessionIdle
    /\ MemoIdle

NextFees == ComputeSeries

SpecFees == InitFees /\ [][NextFees]_vars

-----------------------------------------------------------------------------
(* HostFeesSection: the years offered and the element rendered. *)

\* An ISO timestamp is the sequence of its characters (up to the day).
Digits == {"0", "1", "2", "3", "4", "5", "6", "7", "8", "9"}
DigitValue ==
    [c \in Digits |->
        CASE c = "0" -> 0 [] c = "1" -> 1 [] c = "2" -> 2 [] c = "3" -> 3
          [] c = "4" -> 4 [] c = "5" -> 5 [] c = "6" -> 6 [] c = "7" -> 7
          [] c = "8" -> 8 [] c = "9" -> 9]

\* string.split(separator)
RECURSIVE SplitInto(_, _, _)
SplitInto(chars, separator, parts) ==
    IF chars = <<>> THEN parts
    ELSE IF Head(chars) = separator
         THEN SplitInto(Tail(chars), separator, Append(parts, <<>>))
         ELSE SplitInto(Tail(chars), separator,
                        [parts EXCEPT ![Len(parts)] = Append(@, Head(chars))])

Split(chars, separator) == SplitInto(chars, separator, <<<<>>>>)

\* parseInt(string): the number written by the leading digits, base 10.
RECURSIVE ParseDigits(_, _)
ParseDigits(chars, n) ==
    IF chars = <<>> \/ Head(chars) \notin Digits THEN n
    ELSE ParseDigits(Tail(chars), 10 * n + DigitValue[Head(chars)])

parseInt(chars) == ParseDigits(chars, 0)

\* The years without the current one: Array(currentYear - firstYear).
getActiveYearsOptions_Exclusive(host, year) ==
    LET firstYear ==
            IF host.defined THEN parseInt(Split(host.value.createdAt, "-")[1]) ELSE year
        activeYears == [k \in 1..(year - firstYear) |-> (k - 1) + firstYear]
    IN  [k \in DOMAIN activeYears |->
            [value |-> activeYears[k], label |-> activeYears[k]]]

\* getActiveYearsOptions(host), with the current year `year`.
getActiveYearsOptions(host, year) ==
    LET firstYear ==
            IF host.defined THEN parseInt(Split(host.value.createdAt, "-")[1]) ELSE year
        activeYears == [k \in 1..(year - firstYear + 1) |-> (k - 1) + firstYear]
    IN  [k \in DOMAIN activeYears |->
            [value |-> activeYears[k], label |-> activeYears[k]]]

\* previousData?.host, data?.host
HostOf(queryData) == IF queryData.defined THEN queryData.value.host ELSE NoHost

\* The host of the current result only.
SelectedHost_DataOnly(q) ==
    HostOf(q.data)

\* const host = loading && !data ? previousData?.host : data?.host
SelectedHost(q) ==
    IF q.loading /\ ~q.data.defined THEN HostOf(q.previousData) ELSE HostOf(q.data)

\* const timeSeries = host?.hostMetricsTimeSeries; an undefined time series
\* is read by get(timeSeries, path, []) like one without node lists.
TimeSeriesOf(host) == IF host.defined THEN host.value.hostMetricsTimeSeries ELSE NoTimeSeries

\* The body of HostFeesSection: host, timeSeries, series, yearsOptions and the
\* element returned (<Loading /> or the section with its chart).
HostFeesSection ==
    /\ hostFeesElement = "none"
    /\ LET host == SelectedHost(hostQuery)
       IN  /\ timeSeries' = TimeSeriesAfterGetSeries(TimeSeriesOf(host))
           /\ series' = getSeriesFromData(TimeSeriesOf(host))
           /\ yearsOptions' = getActiveYearsOptions(host, currentYear)
           /\ hostFeesElement' =
                 IF hostQuery.loading /\ ~host.defined THEN "Loading" ELSE "Chart"
    /\ UNCHANGED <<memberVars, stepVars, sessionVars, memoVars, tzShift, hostQuery, currentYear>>

\* The years of the model and the timestamp of a host created in a year.
Years == 2020..2022
CurrentYears == {2021, 2022}
DigitChar == <<"0", "1", "2", "3", "4", "5", "6", "7", "8", "9">>
CreatedAtOf(y) ==
    <<DigitChar[((y \div 1000) % 10) + 1], DigitChar[((y \div 100) % 10) + 1],
      DigitChar[((y \div 10) % 10) + 1], DigitChar[(y % 10) + 1],
      "-", "0", "3", "-", "1", "5">>

SectionHostFees ==
    {Absent, Some(<<>>)} \cup
    {Some(<<n>>) : n \in {f \in HostFeeNodes : f.date = 5 /\ f.amount.valueInCents = 1000}}
SectionHostFeeShare ==
    {Absent, Some(<<>>)} \cup
    {Some(<<n>>) : n \in {f \in HostFeeShareNodes :
                              /\ f.date = 5
                              /\ f.amount.valueInCents = 300
                              /\ f.settlementStatus = "SETTLED"}}

\* The hosts the query can return in the year `year`.
Hosts(year) ==
    {Some([createdAt |-> CreatedAtOf(y), hostMetricsTimeSeries |-> ts]) :
        y \in {x \in Years : x <= year},
        ts \in [hostFees : SectionHostFees, hostFeeShare : SectionHostFeeShare]}

PreviousHosts(year) ==
    {h \in Hosts(year) :
        /\ h.value.createdAt = CreatedAtOf(2020)
        /\ h.value.hostMetricsTimeSeries.hostFees.defined
        /\ h.value.hostMetricsTimeSeries.hostFeeShare = Some(<<>>)}

QueryData(hosts) == {NoQueryData} \cup {Some([host |-> h]) : h \in {NoHost} \cup hosts}

\* The results of useQuery: loading, an error (no data), or data.
HostQueryResults(year) ==
    {q \in [loading : BOOLEAN, error : Errors, data : QueryData(Hosts(year)),
            previousData : QueryData(PreviousHosts(year))] :
        q.error # Undefined => (~q.loading /\ ~q.data.defined)}

InitHostFees ==
    /\ currentYear \in CurrentYears
    /\ hostQuery \in HostQueryResults(currentYear)
    /\ tzShift \in TzShifts
    /\ timeSeries = NoTimeSeries
    /\ series = NoSeries
    /\ yearsOptions = NoOptions
    /\ hostFeesElement = "none"
    /\ data = NoData
    /\ Unmounted
    /\ StepsIdle
    /\ SessionIdle
    /\ MemoIdle

NextHostFees == HostFeesSection

-----------------------------------------------------------------------------
(* The two derivations side by side, on lists of at most one record. *)

InitPure ==
    /\ data \in {Loaded(nodes, invitations) :
                    nodes \in {Absent} \cup {Some(s) : s \in SeqsUpTo(MemberRecords, 1)},
                    invitations \in
                        {Absent} \cup {Some(s) : s \in SeqsUpTo(InvitationRecords, 1)}}
    /\ timeSeries \in
            [hostFees : {Absent} \cup {Some(s) : s \in SeqsUpTo(HostFeeNodes, 1)},
             hostFeeShare : {Absent} \cup {Some(s) : s \in SeqsUpTo(HostFeeShareNodes, 1)}]
    /\ tzShift = 0
    /\ series = NoSeries
    /\ SectionIdle
    /\ Unmounted
    /\ StepsIdle
    /\ SessionIdle
    /\ MemoIdle

NextPure ==
    \/ Constructor
    \/ ComputeSeries

SpecPure == InitPure /\ [][NextPure]_vars

-----------------------------------------------------------------------------
(* ContributionFlowStepsProgress *)

MaxSteps == 3         \* longest list of steps

StepNames == {"profile", "details", "payment", "summary"}

\* array.slice(start, end)
Slice(s, start, end) ==
    LET from == IF start < 0 THEN (IF Len(s) + start < 0 THEN 0 ELSE Len(s) + start)
                ELSE IF start > Len(s) THEN Len(s) ELSE start
        to == IF end < 0 THEN (IF Len(s) + end < 0 THEN 0 ELSE Len(s) + end)
              ELSE IF end > Len(s) THEN Len(s) ELSE end
    IN  SubSeq(s, from + 1, to)

\* The disabled names taken from the last visited step on.
disabledStepNames_FromLastVisited(steps, lastVisitedStep) ==
    LET disabled == Slice(steps, lastVisitedStep.index, Len(steps))
    IN  [k \in 1..Len(disabled) |-> disabled[k].name]

\* steps.slice(lastVisitedStep.index + 1, steps.length).map(s => s.name)
disabledStepNames(steps, lastVisitedStep) ==
    LET disabled == Slice(steps, lastVisitedStep.index + 1, Len(steps))
    IN  [k \in 1..Len(disabled) |-> disabled[k].name]

\* The body of ContributionFlowStepsProgress: the props of <StepsProgress>.
ContributionFlowStepsProgress ==
    /\ ~stepsProgress.rendered
    /\ stepsProgress' =
            [rendered |-> TRUE,
             steps |-> stepProps.steps,
             focus |-> stepProps.currentStep,
             allCompleted |-> stepProps.isSubmitted,
             onStepSelect |->
                IF ~stepProps.loading /\ ~stepProps.isSubmitted
                THEN "goToStep" ELSE Undefined,
             loadingStep |->
                IF stepProps.loading THEN Some(stepProps.currentStep) ELSE NoStep,
             disabledStepNames |->
                disabledStepNames(stepProps.steps, stepProps.lastVisitedStep)]
    /\ UNCHANGED <<memberVars, feeVars, sessionVars, memoVars, stepProps>>

\* The lists of steps: distinct names, each step holding its position.
StepLists ==
    {[k \in 1..Len(names) |-> [name |-> names[k], index |-> k - 1]] :
        names \in {n \in SeqsUpTo(StepNames, MaxSteps) :
                        /\ Len(n) >= 1
                        /\ \A j, k \in 1..Len(n) : n[j] = n[k] => j = k}}

StepsOf(l) == {l[k] : k \in 1..Len(l)}

\* The current step and the last visited step are steps of the list, the
\* current one not after the last visited one.
InitSteps ==
    /\ stepProps \in
            UNION {[steps : {l}, currentStep : StepsOf(l), lastVisitedStep : StepsOf(l),
                    loading : BOOLEAN, isSubmitted : BOOLEAN] : l \in StepLists}
    /\ stepProps.currentStep.index <= stepProps.lastVisitedStep.index
    /\ stepsProgress = NoElement
    /\ data = NoData
    /\ Unmounted
    /\ FeesIdle
    /\ SessionIdle
    /\ MemoIdle

NextSteps == ContributionFlowStepsProgress

SpecSteps == InitSteps /\ [][NextSteps]_vars

-----------------------------------------------------------------------------
(* HostFeesSection over year selections and fetch completions *)

\* React.useMemo(() => value, [deps]): the cached value when deps is the
\* reference of the last call, the new value otherwise.
useMemo_KeepFirst(cache, deps, value) ==
    IF cache.defined THEN cache
    ELSE [defined |-> TRUE, deps |-> deps, value |-> value]

useMemo(cache, deps, value) ==
    IF cache.defined /\ cache.deps = deps THEN cache
    ELSE [defined |-> TRUE, deps |-> deps, value |-> value]

\* getQueryVariables(hostSlug, year)
getQueryVariables(hostSlug, year) ==
    [hostSlug |-> hostSlug,
     dateFrom |-> <<year, "-01-01T00:00:00Z">>,
     dateTo |-> <<year, "-12-31T23:59:59Z">>]

\* The result object the selected host is taken from, named by the year of
\* its query: 0 for no host.
SelectedHostRef(q, dataYear, previousYear) ==
    IF ~SelectedHost(q).defined THEN 0
    ELSE IF q.loading /\ ~q.data.defined THEN previousYear ELSE dataYear

\* The body of HostFeesSection after useQuery has returned q.
RenderHostFees(q, dataYear, previousYear) ==
    LET host == SelectedHost(q)
        ref == SelectedHostRef(q, dataYear, previousYear)
        seriesMemo == useMemo(memo.series, ref, getSeriesFromData(TimeSeriesOf(host)))
        optionsMemo ==
            useMemo(memo.yearsOptions, ref, getActiveYearsOptions(host, currentYear))
    IN  /\ timeSeries' = TimeSeriesOf(host)
        /\ memo' = [series |-> seriesMemo, yearsOptions |-> optionsMemo]
        /\ series' = seriesMemo.value
        /\ yearsOptions' = optionsMemo.value
        /\ hostFeesElement' = IF q.loading /\ ~host.defined THEN "Loading" ELSE "Chart"

\* useQuery with the variables of `year`: the cached result, or a fetch.
useQuery(year) ==
    LET previous == IF hostQuery.data.defined THEN hostQuery.data
                    ELSE hostQuery.previousData
        previousYear == IF hostQuery.data.defined THEN apollo.dataYear
                        ELSE apollo.previousYear
        cached == year \in apollo.cache
        q == [loading |-> ~cached, error |-> Undefined,
              data |-> IF cached THEN apollo.results[year] ELSE NoQueryData,
              previousData |-> previous]
        dataYear == IF cached THEN year ELSE 0
    IN  /\ hostQuery' = q
        /\ apollo' = [apollo EXCEPT !.inFlight = IF cached THEN @ ELSE @ \cup {year},
                                    !.dataYear = dataYear,
                                    !.previousYear = previousYear]
        /\ RenderHostFees(q, dataYear, previousYear)

\* The first render: selectedYear is the current year.
MountHostFees ==
    /\ hostFeesElement = "none"
    /\ selectedYear' = currentYear
    /\ variables' = getQueryVariables("host", currentYear)
    /\ useQuery(currentYear)
    /\ UNCHANGED <<memberVars, stepVars, memoVars, tzShift, currentYear>>

\* onChange of the year select: setSelectedYear(value) and the render it
\* causes.
SelectYear ==
    /\ hostFeesElement = "Chart"
    /\ \E k \in 1..Len(yearsOptions) :
          LET value == yearsOptions[k].value
          IN  /\ value # selectedYear
              /\ selectedYear' = value
              /\ variables' = getQueryVariables("host", value)
              /\ useQuery(value)
    /\ UNCHANGED <<memberVars, stepVars, memoVars, tzShift, currentYear>>

\* The response of the fetch of `year` arrives: it is written to the cache
\* and, when it is the query of the selected year, given to the component.
FetchCompleted ==
    /\ hostFeesElement # "none"
    /\ \E year \in apollo.inFlight :
          LET arrived == [apollo EXCEPT !.inFlight = @ \ {year},
                                        !.cache = @ \cup {year}]
          IN  IF year = selectedYear /\ hostQuery.loading
              THEN LET q == [hostQuery EXCEPT !.loading = FALSE,
                                              !.data = apollo.results[year]]
                   IN  /\ hostQuery' = q
                       /\ apollo' = [arrived EXCEPT !.dataYear = year]
                       /\ RenderHostFees(q, year, apollo.previousYear)
              ELSE /\ apollo' = arrived
                   /\ UNCHANGED <<hostQuery, timeSeries, memo, series, yearsOptions,
                                  hostFeesElement>>
    /\ UNCHANGED <<memberVars, stepVars, memoVars, tzShift, currentYear, selectedYear,
                   variables>>

\* The fetch of `year` fails: the component gets the error and no data.
FetchFailed ==
    /\ hostFeesElement # "none"
    /\ \E year \in apollo.inFlight :
          LET failed == [apollo EXCEPT !.inFlight = @ \ {year}]
          IN  IF year = selectedYear /\ hostQuery.loading
              THEN LET q == [hostQuery EXCEPT !.loading = FALSE, !.error = "error"]
                   IN  /\ hostQuery' = q
                       /\ apollo' = failed
                       /\ RenderHostFees(q, apollo.dataYear, apollo.previousYear)
              ELSE /\ apollo' = failed
                   /\ UNCHANGED <<hostQuery, timeSeries, memo, series, yearsOptions,
                                  hostFeesElement>>
    /\ UNCHANGED <<memberVars, stepVars, memoVars, tzShift, currentYear, selectedYear,
                   variables>>

\* The time series the server holds for a year.
YearTimeSeries ==
    {ts \in [hostFees : SectionHostFees, hostFeeShare : SectionHostFeeShare] :
        ts.hostFees.defined /\ ts.hostFeeShare.defined}

\* What the server answers for each year: no host for the slug, or the host
\* with the time series of the year.
ServerResults ==
    {[y \in Years |-> Some([host |-> NoHost])]} \cup
    {[y \in Years |->
        Some([host |-> Some([createdAt |-> CreatedAtOf(created),
                             hostMetricsTimeSeries |-> ts[y]])])] :
        created \in {2020, 2021}, ts \in [Years -> YearTimeSeries]}

InitSession ==
    /\ currentYear = 2022
    /\ apollo \in {[NoApollo EXCEPT !.results = r] : r \in ServerResults}
    /\ hostQuery = NoHostQuery
    /\ selectedYear = 0
    /\ variables = NoVariables
    /\ memo = [series |-> NoMemo, yearsOptions |-> NoMemo]
    /\ tzShift = 0
    /\ timeSeries = NoTimeSeries
    /\ series = NoSeries
    /\ yearsOptions = NoOptions
    /\ hostFeesElement = "none"
    /\ data = NoData
    /\ Unmounted
    /\ StepsIdle
    /\ MemoIdle

NextSession ==
    \/ MountHostFees
    \/ SelectYear
    \/ FetchCompleted
    \/ FetchFailed

SpecSession == InitSession /\ [][NextSession]_vars

-----------------------------------------------------------------------------
(* The memoized derivations: getMembersCollectiveIds of each instance of
   Members, and the useMemo calls of HostFeesSection *)

MaxRenders == 2       \* most renders of one roster that are counted

\* The identity of EMPTY_MEMBERS, the one array of the module.
EmptyMembersRef == 0

\* memoizeOne(fn) that never computes again after its first call.
memoizeOne_KeepFirst(cache, arg, result, resultRef) ==
    IF cache.defined THEN cache
    ELSE [defined |-> TRUE, arg |-> arg, result |-> result, resultRef |-> resultRef]

\* memoizeOne(fn)(arg): the last result when arg is the last argument (===),
\* the result of a new call of fn otherwise.
memoizeOne(cache, arg, result, resultRef) ==
    IF cache.defined /\ cache.arg = arg THEN cache
    ELSE [defined |-> TRUE, arg |-> arg, result |-> result, resultRef |-> resultRef]

\* The identity of a new array, among the arrays an instance holds: one
\* that none of them has.
NewRef(live) ==
    CHOOSE r \in 1..(Cardinality(live) + 1) :
        r \notin live /\ \A s \in 1..(r - 1) : s \in live

\* The identity of the array getMembersFromProps returns in the instance i:
\* EMPTY_MEMBERS when `all` is empty, the new array `all` otherwise.
RosterRef(i, d) ==
    IF getMembersFromProps_NoPlaceholder(d) = <<>> THEN EmptyMembersRef
    ELSE NewRef({instances[i].membersRef, idsCache[i].arg})

\* The props the instances are given: no member and no invitation, or the
\* two administrators.
MemoProps ==
    {Loaded(Some(nodes), Some(<<>>)) :
        nodes \in {s \in SeqsUpTo({m \in MemberRecords : m.role = ADMIN}, 2) :
                        /\ Len(s) # 1
                        /\ \A k \in 1..Len(s) : s[k].id = DigitChar[k + 1]}}

\* new Members(props): the state and the instance's own memoized function.
ConstructInstance(i) ==
    /\ ~instances[i].mounted
    /\ \E d \in MemoProps :
          instances' = [instances EXCEPT ![i] =
                            [mounted |-> TRUE, members |-> getMembersFromProps(d),
                             membersRef |-> RosterRef(i, d), renders |-> 0]]
    /\ idsCache' = [idsCache EXCEPT ![i] = NoCache]
    /\ UNCHANGED <<memberVars, feeVars, stepVars, sessionVars>>

\* componentDidUpdate with a changed list: setState({ members }).
UpdateInstance(i) ==
    /\ instances[i].mounted
    /\ \E d \in MemoProps :
          instances' = [instances EXCEPT ![i].members = getMembersFromProps(d),
                                         ![i].membersRef = RosterRef(i, d),
                                         ![i].renders = 0]
    /\ UNCHANGED <<memberVars, feeVars, stepVars, sessionVars, idsCache>>

\* renderSection: this.getMembersCollectiveIds(this.state.members)
RenderInstance(i) ==
    /\ instances[i].mounted
    /\ instances[i].renders < MaxRenders
    /\ LET cache == memoizeOne(idsCache[i], instances[i].membersRef,
                               getMembersCollectiveIds(instances[i].members),
                               NewRef({idsCache[i].resultRef}))
       IN  /\ idsCache' = [idsCache EXCEPT ![i] = cache]
           /\ instances' = [instances EXCEPT ![i].renders = @ + 1]
    /\ UNCHANGED <<memberVars, feeVars, stepVars, sessionVars>>

\* The server of the HostFeesSection beside the instances: a host created in
\* 2021 whose time series differ from year to year.
MemoServerResults ==
    {r \in ServerResults :
        /\ r[2022].value.host.defined
        /\ r[2022].value.host.value.createdAt = CreatedAtOf(2021)
        /\ r[2020] = r[2021]
        /\ r[2021].value.host.value.hostMetricsTimeSeries.hostFees = Some(<<>>)
        /\ r[2021].value.host.value.hostMetricsTimeSeries.hostFeeShare = Some(<<>>)
        /\ r[2022].value.host.value.hostMetricsTimeSeries.hostFees # Some(<<>>)
        /\ r[2022].value.host.value.hostMetricsTimeSeries.hostFeeShare # Some(<<>>)}

InitMemo ==
    /\ currentYear = 2022
    /\ apollo \in {[NoApollo EXCEPT !.results = r] : r \in MemoServerResults}
    /\ hostQuery = NoHostQuery
    /\ selectedYear = 0
    /\ variables = NoVariables
    /\ memo = [series |-> NoMemo, yearsOptions |-> NoMemo]
    /\ tzShift = 0
    /\ timeSeries = NoTimeSeries
    /\ series = NoSeries
    /\ yearsOptions = NoOptions
    /\ hostFeesElement = "none"
    /\ data = NoData
    /\ Unmounted
    /\ StepsIdle
    /\ MemoIdle

NextMemo ==
    \/ \E i \in Instances : ConstructInstance(i)
    \/ \E i \in Instances : UpdateInstance(i)
    \/ \E i \in Instances : RenderInstance(i)
    \/ MountHostFees
    \/ SelectYear
    \/ FetchCompleted

SpecMemo == InitMemo /\ [][NextMemo]_vars

SpecHostFees == InitHostFees /\ [][NextHostFees]_vars

-----------------------------------------------------------------------------
(* Properties of the roster. *)

SourceMembers == Get(data.members, <<>>)
SourceInvitations == Get(data.memberInvitations, <<>>)
BothListsGiven == data.members.defined /\ data.memberInvitations.defined

\* The roster entries that are admins with an identifier, counted by position.
AdminPositions == {k \in DOMAIN members : members[k].role = ADMIN /\ members[k].id # Undefined}

\* C1: for every member list M and invitation list I given by the data source,
\* the roster has |M| + |I| entries, and exactly one entry when both are empty.
C1_RosterLength ==
    (pc = "mounted" /\ BothListsGiven) =>
        Len(members) =
            IF Len(SourceMembers) + Len(SourceInvitations) = 0
            THEN 1
            ELSE Len(SourceMembers) + Len(SourceInvitations)

\* C1 witness: the roster of two empty lists is the single placeholder.
C1_Witness ==
    /\ pc = "mounted"
    /\ BothListsGiven
    /\ SourceMembers = <<>>
    /\ SourceInvitations = <<>>
    /\ members = <<EmptyObject>>

\* C2: in the roster of non-empty inputs the members come first, in source
\* order, and the invitations follow, in source order (each invitation is its
\* source record up to the identifier).
C2_RosterOrder ==
    (pc = "mounted" /\ BothListsGiven
        /\ Len(SourceMembers) + Len(SourceInvitations) > 0) =>
        /\ \A k \in 1..Len(SourceMembers) : members[k] = SourceMembers[k]
        /\ \A k \in 1..Len(SourceInvitations) :
              /\ Len(SourceMembers) + k \in DOMAIN members
              /\ [members[Len(SourceMembers) + k] EXCEPT !.id = SourceInvitations[k].id]
                    = SourceInvitations[k]

\* C2 witness: two different members followed by two different invitations.
C2_Witness ==
    /\ pc = "mounted"
    /\ BothListsGiven
    /\ Len(SourceMembers) = 2
    /\ Len(SourceInvitations) = 2
    /\ SourceMembers[1] # SourceMembers[2]
    /\ SourceInvitations[1].memberAccount # SourceInvitations[2].memberAccount
    /\ Len(members) = 4
    /\ members[1].typename = "Member"
    /\ members[4].typename = "MemberInvitation"

\* C3: the last-admin flag is true exactly when the roster has one admin (a
\* record with role ADMIN and an identifier), and the targeted entry has role
\* ADMIN and an identifier; it is false when the targeted entry is an invitation.
C3_LastAdminFlag ==
    pc = "mounted" =>
        /\ isLastAdmin(nbAdmins(members), currentMember) <=>
              /\ Cardinality(AdminPositions) = 1
              /\ currentMember.defined
              /\ currentMember.value.role = ADMIN
              /\ currentMember.value.id # Undefined
        /\ (currentMember.defined /\ currentMember.value.typename = "MemberInvitation")
              => ~isLastAdmin(nbAdmins(members), currentMember)

\* C3 witness: scenario A, the edit modal open on the only admin.
C3_Witness ==
    /\ pc = "mounted"
    /\ showEditModal
    /\ Len(members) = 1
    /\ members[1].role = ADMIN
    /\ members[1].id = "1"
    /\ currentMember = Some(members[1])
    /\ isLastAdmin(nbAdmins(members), currentMember)

\* C4: an absent list is treated like an empty one: the roster is the members
\* given followed by the invitations given, or the single placeholder when
\* nothing is given.
C4_AbsentAsEmpty ==
    pc = "mounted" =>
        members =
            IF Len(SourceMembers) + Len(SourceInvitations) = 0
            THEN <<EmptyObject>>
            ELSE SourceMembers \o OmitIds(SourceInvitations)

\* C5: the admin count is the number of roster entries with role ADMIN and an
\* identifier, which is the number of ADMIN records of the member list: the
\* placeholder and the invitations count for nothing.
C5_AdminCount ==
    pc = "mounted" =>
        /\ nbAdmins(members) = Cardinality(AdminPositions)
        /\ nbAdmins(members) =
              Cardinality({k \in DOMAIN SourceMembers : SourceMembers[k].role = ADMIN})

\* C5 witness: one ADMIN member and one ADMIN invitation give a count of 1.
C5_Witness ==
    /\ pc = "mounted"
    /\ Len(SourceMembers) = 1
    /\ SourceMembers[1].role = ADMIN
    /\ Len(SourceInvitations) = 1
    /\ SourceInvitations[1].role = ADMIN
    /\ members[2].role = ADMIN
    /\ nbAdmins(members) = 1

\* C10: the display key of a roster entry is member-<id> when the entry has an
\* identifier and collective-<account id> otherwise, and the key stored with
\* the targeted entry is the display key of that entry.
C10_KeysAgree ==
    pc = "mounted" =>
        /\ \A k \in DOMAIN members :
              memberKey(members[k]) =
                  IF members[k].id # Undefined
                  THEN <<"member-", members[k].id>>
                  ELSE <<"collective-", members[k].memberAccount>>
        /\ currentMember.defined => currentMemberKey = memberKey(currentMember.value)

\* C10 witness: scenario B, the edit modal open on an invitation, and a
\* member in the same roster.
C10_Witness ==
    /\ pc = "mounted"
    /\ showEditModal
    /\ Len(members) = 2
    /\ memberKey(members[1]) = <<"member-", "2">>
    /\ currentMember = Some(members[2])
    /\ currentMemberKey = <<"collective-", "10">>

\* The roster positions that hold the invitations of the data source: the last
\* Len(SourceInvitations) ones.
InvitationPosition(k) == Len(members) - Len(SourceInvitations) + k

\* C11: no roster entry that comes from an invitation carries an id, whatever
\* id the invitation had in the data source; an entry that comes from a member
\* keeps the id of the member.
C11_InvitationsWithoutId ==
    (pc = "mounted") =>
        /\ \A k \in DOMAIN members :
              members[k].typename = "MemberInvitation" => members[k].id = Undefined
        /\ \A k \in 1..Len(SourceInvitations) :
              /\ InvitationPosition(k) \in DOMAIN members
              /\ members[InvitationPosition(k)].id = Undefined
        /\ data.members.defined =>
              \A k \in 1..Len(SourceMembers) :
                  /\ members[k].id = SourceMembers[k].id
                  /\ members[k].id # Undefined

\* C11 witness: a member with id "1" keeps it, and the two invitations with ids
\* "1" and "2" are in the roster without id.
C11_Witness ==
    /\ pc = "mounted"
    /\ Len(SourceMembers) = 1
    /\ Len(SourceInvitations) = 2
    /\ SourceMembers[1].id = "1"
    /\ SourceInvitations[1].id = "1"
    /\ SourceInvitations[2].id = "2"
    /\ Len(members) = 3
    /\ members[1].id = "1"
    /\ members[2].id = Undefined
    /\ members[3].id = Undefined
    /\ members[2].memberAccount = SourceInvitations[1].memberAccount

\* The account a roster entry references: the account of a member, the invited
\* account of an invitation, undefined for an entry that references none.
ReferencedAccount(entry) ==
    IF entry.account # Undefined THEN entry.account ELSE entry.memberAccount

\* C12: getMembersCollectiveIds returns one element per roster entry, in roster
\* order, and the element of an entry is the id of the account the entry
\* references (undefined only when the entry references no account).
C12_CollectiveIds ==
    (pc = "mounted") =>
        LET ids == getMembersCollectiveIds(members)
        IN  /\ Len(ids) = Len(members)
            /\ \A k \in DOMAIN members : ids[k] = ReferencedAccount(members[k])

\* C20: when the roster is only the placeholder, the placeholder is excluded
\* from every aggregate: the admin count is 0 and the collection of member
\* account ids handed to the modals has no element for the placeholder.
C20_PlaceholderExcluded ==
    (pc = "mounted" /\ members = EMPTY_MEMBERS) =>
        /\ nbAdmins(members) = 0
        /\ Len(getMembersCollectiveIds(members)) = 0

\* C16: when the loaded, error-free query result has a parent account, the
\* component renders the "defined in parent" notice and not the roster section,
\* and no edit or invite action can be taken; the outcome of render is chosen
\* with precedence loading, error, parent account, roster section.
C16_ParentNotice ==
    (pc = "mounted") =>
        /\ (~data.loading /\ data.error = Undefined /\ data.parentAccount # Undefined) =>
              /\ render(data) = "DefinedInParent"
              /\ ~ENABLED HandleShowModalChangeEdit
              /\ ~ENABLED HandleShowModalChangeInvite
        /\ data.loading => render(data) = "Loading"
        /\ (~data.loading /\ data.error # Undefined) => render(data) = "Error"
        /\ (~data.loading /\ data.error = Undefined /\ data.parentAccount = Undefined) =>
              render(data) = "Section"

\* C16 witness: a loaded result without error, with a parent account and an
\* admin in the member list, renders the notice.
C16_Witness ==
    /\ pc = "mounted"
    /\ ~data.loading
    /\ data.error = Undefined
    /\ data.parentAccount = "50"
    /\ Len(SourceMembers) = 1
    /\ nbAdmins(members) = 1
    /\ render(data) = "DefinedInParent"

RosterReferenceChanged ==
    \/ data'.membersRef # data.membersRef
    \/ data'.memberInvitationsRef # data.memberInvitationsRef

\* An update that changes a list only by replacing it with another array.
OnlyReplacesReferences ==
    /\ data'.members # data.members => data'.membersRef # data.membersRef
    /\ data'.memberInvitations # data.memberInvitations =>
            data'.memberInvitationsRef # data.memberInvitationsRef

\* C17: on every update the roster in state is recomputed from the new props
\* when the member list or the invitation list is another array than before,
\* and is left as it is when both are the same arrays, even if their contents
\* changed; so the constructor and every update that only replaces arrays
\* keep the roster equal to getMembersFromProps of the current props.
C17_RecomputeOnReferenceChange ==
    [][/\ (pc = "mounted" /\ pc' = "mounted") =>
            /\ RosterReferenceChanged => members' = getMembersFromProps(data')
            /\ ~RosterReferenceChanged => members' = members
            /\ (members = getMembersFromProps(data) /\ OnlyReplacesReferences) =>
                    members' = getMembersFromProps(data')
       /\ (pc = "new" /\ pc' = "mounted") => members' = getMembersFromProps(data')
      ]_vars

\* C17 witness: the member list was changed in place and the roster in state
\* still is the one of the previous contents.
C17_Witness ==
    /\ pc = "mounted"
    /\ data.members.defined
    /\ data.memberInvitations.defined
    /\ members # getMembersFromProps(data)
    /\ Len(members) = 2
    /\ Len(SourceMembers) = 1

\* renderMember renders EditMemberModal for the entry at position k in the
\* layout variant modalKey.
ModalRenderedFor(k, modalKey) ==
    /\ showEditModal
    /\ memberKey(members[k]) = currentMemberKey
    /\ modalKey = currentModalKey

EditModalShown ==
    /\ pc = "mounted"
    /\ render(data) = "Section"
    /\ \E k \in DOMAIN members : \E modalKey \in ModalKeys : ModalRenderedFor(k, modalKey)

\* C24: whenever the edit modal is shown with a true last-admin flag, the
\* targeted entry (state.currentMember) is an entry of the current roster and
\* is the only admin of the roster.
C24_LastAdminIsInRoster ==
    (EditModalShown /\ isLastAdmin(nbAdmins(members), currentMember)) =>
        /\ currentMember.defined
        /\ \E k \in DOMAIN members :
              /\ members[k] = currentMember.value
              /\ AdminPositions = {k}

\* C25: at most one roster entry per layout variant renders the edit modal,
\* and no two entries of a roster have the same display key.
C25_OneModalPerLayout ==
    (pc = "mounted") =>
        /\ \A modalKey \in ModalKeys :
              Cardinality({k \in DOMAIN members : ModalRenderedFor(k, modalKey)}) <= 1
        /\ \A j, k \in DOMAIN members :
              memberKey(members[j]) = memberKey(members[k]) => j = k

EditTarget == <<currentMember, currentMemberKey, currentModalKey>>

\* C26: handleShowModalChange changes only the state of the modal it is called
\* for: for 'invite' only showInviteModal; for 'edit' with an index without
\* roster entry only showEditModal; for 'edit' with a valid index
\* showEditModal and the targeted entry, its key and the layout key, which are
\* those of a roster entry; the roster is never changed.
C26_HandlerFrame ==
    [][(pc = "mounted" /\ pc' = "mounted" /\ data' = data) =>
            /\ members' = members
            /\ showInviteModal' # showInviteModal =>
                    (showEditModal' = showEditModal /\ EditTarget' = EditTarget)
            /\ (showEditModal' # showEditModal \/ EditTarget' # EditTarget) =>
                    showInviteModal' = showInviteModal
            /\ EditTarget' # EditTarget =>
                    \E k \in DOMAIN members :
                        /\ currentMember' = Some(members[k])
                        /\ currentMemberKey' = memberKey(members[k])
                        /\ currentModalKey' \in ModalKeys
      ]_vars

\* C26 witness: the invite modal and the edit modal are both open, the edit
\* modal on the second roster entry.
C26_Witness ==
    /\ pc = "mounted"
    /\ showInviteModal
    /\ showEditModal
    /\ Len(members) = 2
    /\ currentMember = Some(members[2])
    /\ currentModalKey = "hide-xs-sm"

-----------------------------------------------------------------------------
(* Properties of the fee series. *)

GrossNodes == Get(timeSeries.hostFees, <<>>)
SettlementNodes == Get(timeSeries.hostFeeShare, <<>>)
Computed == series # NoSeries

\* The positions of the records of a stream that fall in month m.
PositionsIn(nodes, m) == {k \in DOMAIN nodes : getMonth(nodes[k].date) = m}

RECURSIVE SumCentsAt(_, _)
SumCentsAt(nodes, positions) ==
    IF positions = {} THEN 0
    ELSE LET k == CHOOSE k \in positions : TRUE
         IN  nodes[k].amount.valueInCents + SumCentsAt(nodes, positions \ {k})

\* The settlement total and the gross fee amount of month m, in minor units.
SettlementTotal(m) == SumCentsAt(SettlementNodes, PositionsIn(SettlementNodes, m))
GrossCents(m) == SumCentsAt(GrossNodes, PositionsIn(GrossNodes, m))

AtMostOneGrossPerMonth ==
    \A m \in MonthSlots : Cardinality(PositionsIn(GrossNodes, m)) <= 1

\* A number of the series, in minor units.
ToCents(x) == (x.num * 100) \div x.den

RECURSIVE SumStatusSeries(_, _)
SumStatusSeries(k, m) ==
    IF k > Len(series) THEN 0
    ELSE ToCents(series[k].data[m]) + SumStatusSeries(k + 1, m)

\* The records a series is built from: the gross fee records for the first
\* series, the settlement records of its status for the others.
StreamOf(k) ==
    IF k = 1 THEN GrossNodes ELSE Group(SettlementNodes, series[k].name[2])

\* C6: with at most one gross fee record per month, the net-profit value of
\* every month is (gross amount, 0 if none, minus the settlement total of the
\* month) / 100, also in a month with settlement records and no gross record.
C6_NetProfitEveryMonth ==
    (Computed /\ AtMostOneGrossPerMonth) =>
        \A m \in MonthSlots :
            NumEq(series[1].data[m], Div100(GrossCents(m) - SettlementTotal(m)))

\* C7: every series has exactly 12 slots, months 0 to 11, and the slot of a
\* month with no record of the series' stream holds 0.
C7_TwelveSlots ==
    Computed =>
        \A k \in DOMAIN series :
            /\ DOMAIN series[k].data = MonthSlots
            /\ Cardinality(DOMAIN series[k].data) = 12
            /\ \A m \in MonthSlots :
                  PositionsIn(StreamOf(k), m) = {} => series[k].data[m] = Number(0)

\* C7 witness: three series, from two gross records and two settlement records
\* of different statuses all in one month, leaving the other eleven slots at 0.
C7_Witness ==
    /\ Computed
    /\ Len(series) = 3
    /\ Len(GrossNodes) = 2
    /\ \E m \in MonthSlots :
          /\ \A k \in DOMAIN series : ~NumEq(series[k].data[m], Number(0))
          /\ \A k \in DOMAIN series : \A n \in MonthSlots \ {m} :
                series[k].data[n] = Number(0)

\* C8: with at most one gross fee record per month, the net-profit value plus
\* the values of all status series of a month is the gross fee amount of that
\* month, in minor units.
C8_RoundTrip ==
    (Computed /\ AtMostOneGrossPerMonth) =>
        \A m \in MonthSlots :
            ToCents(series[1].data[m]) + SumStatusSeries(2, m) = GrossCents(m)

\* C9: a gross fee record of a month whose settlement total is zero is passed
\* through unchanged, and the net-profit value of the month is the value of
\* the (last) gross record of that month.
C9_ZeroTotalPassThrough ==
    Computed =>
        \A k \in DOMAIN GrossNodes :
            LET m == getMonth(GrossNodes[k].date)
            IN  SettlementTotal(m) = 0 =>
                  /\ getHostFeesWithoutShare(GrossNodes, SettlementNodes)[k] = GrossNodes[k]
                  /\ (\A j \in PositionsIn(GrossNodes, m) : j <= k)
                        => series[1].data[m] = GrossNodes[k].amount.value

\* C9 witness: a gross record in a month whose two settlement records sum to 0.
C9_Witness ==
    /\ Computed
    /\ Len(GrossNodes) = 1
    /\ LET m == getMonth(GrossNodes[1].date)
       IN  /\ Cardinality(PositionsIn(SettlementNodes, m)) = 2
           /\ SettlementTotal(m) = 0
           /\ series[1].data[m] = Div100(1000)


\* The settlement statuses of the records, and the position at which a status
\* is first seen in the stream.
StatusesSeen == {SettlementNodes[j].settlementStatus : j \in DOMAIN SettlementNodes}
FirstSeen(status) ==
    CHOOSE j \in DOMAIN SettlementNodes :
        /\ SettlementNodes[j].settlementStatus = status
        /\ \A i \in 1..(j - 1) : SettlementNodes[i].settlementStatus # status

\* The positions of the settlement records of a status that fall in month m.
StatusPositionsIn(status, m) ==
    {j \in DOMAIN SettlementNodes :
        /\ SettlementNodes[j].settlementStatus = status
        /\ getMonth(SettlementNodes[j].date) = m}

\* C13: getSeriesFromData returns 1 + k series, k the number of distinct
\* settlement statuses: the net-profit series first, then one series per
\* status in first-seen order, each built only from the records of its status.
C13_OneSeriesPerStatus ==
    Computed =>
        /\ Len(series) = 1 + Cardinality(StatusesSeen)
        /\ series[1].name = <<"Host profit">>
        /\ \A k \in 2..Len(series) :
              /\ series[k].name[1] = "Host fee share ("
              /\ series[k].name[2] \in StatusesSeen
              /\ \A l \in 2..Len(series) :
                    k < l => FirstSeen(series[k].name[2]) < FirstSeen(series[l].name[2])
              /\ \A m \in MonthSlots :
                    LET from == StatusPositionsIn(series[k].name[2], m)
                    IN  IF from = {}
                        THEN series[k].data[m] = Number(0)
                        ELSE \E j \in from :
                                series[k].data[m] = SettlementNodes[j].amount.value

\* C13 witness: a SETTLED record then an INVOICED record of the same month and
\* different amounts give three series, SETTLED before INVOICED, each holding
\* the amount of its own record.
C13_Witness ==
    /\ Computed
    /\ Len(SettlementNodes) = 2
    /\ SettlementNodes[1].settlementStatus = "SETTLED"
    /\ SettlementNodes[2].settlementStatus = "INVOICED"
    /\ SettlementNodes[1].date = SettlementNodes[2].date
    /\ SettlementNodes[1].amount # SettlementNodes[2].amount
    /\ Len(series) = 3
    /\ series[2].name[2] = "SETTLED"
    /\ series[3].name[2] = "INVOICED"
    /\ series[2].data[getMonth(SettlementNodes[1].date)] = SettlementNodes[1].amount.value
    /\ series[3].data[getMonth(SettlementNodes[2].date)] = SettlementNodes[2].amount.value


\* The records dataToSeries is given for series k: the gross fee records after
\* netting for the first series, the settlement records of its status, in
\* stream order, for the others.
WrittenStream(k) ==
    IF k = 1
    THEN getHostFeesWithoutShare(GrossNodes, SettlementNodes)
    ELSE Group(SettlementNodes, series[k].name[2])

LastOf(positions) == CHOOSE j \in positions : \A i \in positions : i <= j

\* C19: in every series each record writes its major-unit amount in the slot of
\* its month; of several records of one month the last in stream order wins
\* (the amounts are not summed), and a slot no record writes holds 0.
C19_LastWriteWins ==
    Computed =>
        \A k \in DOMAIN series : \A m \in MonthSlots :
            LET stream == WrittenStream(k)
                writers == PositionsIn(stream, m)
            IN  series[k].data[m] =
                    IF writers = {} THEN Number(0)
                    ELSE stream[LastOf(writers)].amount.value

\* C19 witness: two gross records of one month with different amounts and no
\* settlement record; the slot holds the amount of the second, and two
\* settlement records of one month and status likewise.
C19_Witness ==
    /\ Computed
    /\ Len(GrossNodes) = 2
    /\ GrossNodes[1].date = GrossNodes[2].date
    /\ GrossNodes[1].amount.valueInCents = 1000
    /\ GrossNodes[2].amount.valueInCents = 250
    /\ Len(SettlementNodes) = 2
    /\ SettlementNodes[1].date = SettlementNodes[2].date
    /\ SettlementNodes[1].settlementStatus = SettlementNodes[2].settlementStatus
    /\ SettlementNodes[1].amount.valueInCents = 300
    /\ SettlementNodes[2].amount.valueInCents = -300
    /\ Len(series) = 2
    /\ series[1].data[getMonth(GrossNodes[2].date)] = Div100(250)
    /\ series[2].data[getMonth(SettlementNodes[2].date)] = Div100(-300)


-----------------------------------------------------------------------------
(* Properties of HostFeesSection. *)

SectionRendered == hostFeesElement # "none"
YearCreated(host) == CHOOSE y \in Years : host.value.createdAt = CreatedAtOf(y)
Option(year) == [value |-> year, label |-> year]
ZeroSeries == [m \in MonthSlots |-> Number(0)]

\* C14: for a loaded host created in year Y, with Y at most the current year
\* C, the options are the years Y, Y + 1, ..., C in ascending order, C - Y + 1
\* of them; with no host there is one option, the current year; the list of
\* options is never empty.
C14_ActiveYears ==
    SectionRendered =>
        LET host == SelectedHost(hostQuery)
        IN  /\ (host.defined /\ YearCreated(host) <= currentYear) =>
                  /\ Len(yearsOptions) = currentYear - YearCreated(host) + 1
                  /\ \A k \in 1..Len(yearsOptions) :
                        yearsOptions[k] = Option(YearCreated(host) + k - 1)
            /\ ~host.defined => yearsOptions = <<Option(currentYear)>>
            /\ Len(yearsOptions) >= 1

\* C14 witness: a host created in 2020 seen in 2022 gives 2020, 2021, 2022.
C14_Witness ==
    /\ SectionRendered
    /\ currentYear = 2022
    /\ SelectedHost(hostQuery).defined
    /\ SelectedHost(hostQuery).value.createdAt = CreatedAtOf(2020)
    /\ yearsOptions = <<Option(2020), Option(2021), Option(2022)>>

\* C15: a failed fetch is shown as an error: Members renders the error and not
\* the roster, and HostFeesSection does not render a chart of series that are
\* all zero, as it does for a fetch that succeeded without data.
C15_FailureSurfaced ==
    /\ (pc = "mounted" /\ ~data.loading /\ data.error # Undefined) =>
            render(data) = "Error"
    /\ (SectionRendered /\ hostQuery.error # Undefined) =>
            ~(/\ hostFeesElement = "Chart"
              /\ \A k \in DOMAIN series : series[k].data = ZeroSeries)

-----------------------------------------------------------------------------
(* Properties of the netting. *)

NetStream == getHostFeesWithoutShare(GrossNodes, SettlementNodes)

\* C21: every record of the net-profit stream has value = valueInCents / 100
\* and the currency of its gross record, and its valueInCents is the gross
\* valueInCents minus the settlement total of its month, which may be negative
\* (the input records have value = valueInCents / 100).
C21_NettingInMinorUnits ==
    Computed =>
        /\ Len(NetStream) = Len(GrossNodes)
        /\ \A k \in DOMAIN GrossNodes :
              /\ NumEq(GrossNodes[k].amount.value, Div100(GrossNodes[k].amount.valueInCents))
              /\ NumEq(NetStream[k].amount.value, Div100(NetStream[k].amount.valueInCents))
              /\ NetStream[k].amount.currency = GrossNodes[k].amount.currency
              /\ NetStream[k].date = GrossNodes[k].date
              /\ NetStream[k].amount.valueInCents =
                    GrossNodes[k].amount.valueInCents
                        - SettlementTotal(getMonth(GrossNodes[k].date))

\* C21 witness: a gross record of 250 in a month with a settlement of 300 is
\* netted to -50 minor units, -50 / 100 major units.
C21_Witness ==
    /\ Computed
    /\ Len(GrossNodes) = 1
    /\ Len(SettlementNodes) = 1
    /\ GrossNodes[1].amount.valueInCents = 250
    /\ SettlementNodes[1].amount.valueInCents = 300
    /\ SettlementNodes[1].date = GrossNodes[1].date
    /\ NetStream[1].amount.valueInCents = -50
    /\ NetStream[1].amount.value = Div100(-50)
    /\ series[1].data[getMonth(GrossNodes[1].date)] = Div100(-50)


-----------------------------------------------------------------------------
(* Absence of side effects. *)

-----------------------------------------------------------------------------
(* Months counted in UTC. *)

\* The positions of the records of a stream dated in UTC month m.
UtcPositionsIn(nodes, m) == {k \in DOMAIN nodes : nodes[k].date = m}

\* C27: a record dated at the first instant of UTC month m is counted in slot
\* m of its series and in the settlement total of month m, whatever the
\* viewer's time zone: a slot of a status series holds the amount of the last
\* record of that status dated in that UTC month (0 if none), and a slot of
\* the net-profit series holds the last gross amount of that UTC month minus
\* the settlement records of that UTC month (0 if no gross record).
C27_UtcMonthSlots ==
    Computed =>
        /\ \A k \in 2..Len(series) : \A m \in MonthSlots :
              LET stream == Group(SettlementNodes, series[k].name[2])
                  dated == UtcPositionsIn(stream, m)
              IN  series[k].data[m] =
                      IF dated = {} THEN Number(0)
                      ELSE stream[LastOf(dated)].amount.value
        /\ \A m \in MonthSlots :
              LET dated == UtcPositionsIn(GrossNodes, m)
              IN  NumEq(series[1].data[m],
                        IF dated = {} THEN Number(0)
                        ELSE Div100(GrossNodes[LastOf(dated)].amount.valueInCents
                                    - SumCentsAt(SettlementNodes,
                                                 UtcPositionsIn(SettlementNodes, m))))


-----------------------------------------------------------------------------
\* C29: in ContributionFlowStepsProgress the disabled step names are exactly
\* the names of the steps at the positions strictly after
\* lastVisitedStep.index, in their order, so that neither the last visited
\* step nor an earlier one is disabled; onStepSelect is goToStep if and only
\* if the flow is neither loading nor submitted; and loadingStep is the
\* current step exactly when loading is true.
C29_DisabledAfterLastVisited ==
    stepsProgress.rendered =>
        LET steps == stepProps.steps
            last == stepProps.lastVisitedStep.index
            disabled == stepsProgress.disabledStepNames
        IN  /\ Len(disabled) = Len(steps) - (last + 1)
            /\ \A k \in 1..Len(disabled) : disabled[k] = steps[last + 1 + k].name
            /\ \A k \in 1..Len(steps) :
                    (\E j \in 1..Len(disabled) : disabled[j] = steps[k].name)
                        <=> k - 1 > last
            /\ (stepsProgress.onStepSelect = "goToStep")
                    <=> (~stepProps.loading /\ ~stepProps.isSubmitted)
            /\ stepsProgress.onStepSelect \in {"goToStep", Undefined}
            /\ stepsProgress.loadingStep.defined <=> stepProps.loading
            /\ stepsProgress.loadingStep.defined =>
                    stepsProgress.loadingStep.value = stepProps.currentStep

\* A flow of three steps rendered while loading, its second step the last
\* visited one: one name is disabled and selection is off.
C29_Witness ==
    /\ stepsProgress.rendered
    /\ Len(stepProps.steps) = 3
    /\ stepProps.lastVisitedStep.index = 1
    /\ stepProps.loading
    /\ Len(stepsProgress.disabledStepNames) = 1
    /\ stepsProgress.onStepSelect = Undefined


-----------------------------------------------------------------------------
\* C28: in HostFeesSection, after any sequence of year selections and fetch
\* completions, the query range is that of the selected year (from its first
\* second to its last one, in UTC) and the result held is one of that year;
\* <Loading /> is returned exactly when the fetch is in flight and neither
\* the current result nor the previous one has a host; while the fetch is in
\* flight and only the previous result has a host, the series and the year
\* options are those of the previous result; and once the fetch of the
\* selected year has completed the series is the one of its result.
C28_SelectedYearShown ==
    hostFeesElement # "none" =>
        LET current == HostOf(hostQuery.data)
            previous == HostOf(hostQuery.previousData)
            inFlight == hostQuery.loading
        IN  /\ variables.dateFrom = <<selectedYear, "-01-01T00:00:00Z">>
            /\ variables.dateTo = <<selectedYear, "-12-31T23:59:59Z">>
            /\ inFlight <=> selectedYear \in apollo.inFlight
            /\ hostQuery.data.defined => hostQuery.data = apollo.results[selectedYear]
            /\ (hostFeesElement = "Loading")
                    <=> (inFlight /\ ~current.defined /\ ~previous.defined)
            /\ (inFlight /\ ~current.defined /\ previous.defined) =>
                    /\ hostFeesElement = "Chart"
                    /\ series = getSeriesFromData(previous.value.hostMetricsTimeSeries)
                    /\ yearsOptions = getActiveYearsOptions(previous, currentYear)
            /\ (~inFlight /\ current.defined) =>
                    /\ hostFeesElement = "Chart"
                    /\ series = getSeriesFromData(
                                    apollo.results[selectedYear].value.host.value
                                        .hostMetricsTimeSeries)
                    /\ yearsOptions = getActiveYearsOptions(current, currentYear)

\* A year other than the current one is selected and its fetch is in flight
\* while the chart shows the previous result, whose series differs from the
\* one the server holds for the selected year.
C28_WitnessInFlight ==
    /\ hostFeesElement = "Chart"
    /\ selectedYear # currentYear
    /\ hostQuery.loading
    /\ HostOf(hostQuery.previousData).defined
    /\ series # getSeriesFromData(
                    apollo.results[selectedYear].value.host.value.hostMetricsTimeSeries)


-----------------------------------------------------------------------------
\* The result each memoized derivation holds for the input of its latest
\* call: what the function gives for that input.
MemoizedEqualsUnmemoized ==
    /\ \A i \in Instances :
          /\ instances[i].renders > 0 =>
                /\ idsCache[i].defined
                /\ idsCache[i].arg = instances[i].membersRef
          /\ (idsCache[i].defined /\ idsCache[i].arg = instances[i].membersRef) =>
                idsCache[i].result = getMembersCollectiveIds(instances[i].members)
    /\ hostFeesElement # "none" =>
          /\ memo.series.defined
          /\ memo.series.deps =
                SelectedHostRef(hostQuery, apollo.dataYear, apollo.previousYear)
          /\ memo.series.value = getSeriesFromData(TimeSeriesOf(SelectedHost(hostQuery)))
          /\ series = memo.series.value

\* C23: a memoized derivation called with the reference of its previous call
\* returns the cached output unchanged, and computes a new output otherwise,
\* so that its result is the one of the unmemoized function for the latest
\* input: getMembersCollectiveIds on the reference of the roster, the fee
\* series on the reference of the time series. A call in one component
\* instance changes the cache of no other instance.
C23_MemoizedDerivations ==
    [][/\ MemoizedEqualsUnmemoized'
       /\ \A i \in Instances :
             instances'[i].renders = instances[i].renders + 1 =>
                IF idsCache[i].defined /\ idsCache[i].arg = instances[i].membersRef
                THEN idsCache'[i] = idsCache[i]
                ELSE /\ idsCache'[i].arg = instances[i].membersRef
                     /\ idsCache'[i].result =
                            getMembersCollectiveIds(instances[i].members)
                     /\ idsCache'[i].resultRef # idsCache[i].resultRef
       /\ \A i \in Instances :
             idsCache'[i] # idsCache[i] =>
                /\ \A j \in Instances \ {i} : idsCache'[j] = idsCache[j]
                /\ memo' = memo
       /\ memo' # memo => idsCache' = idsCache
       /\ (memo.series.defined /\ memo'.series.deps = memo.series.deps) =>
             memo'.series = memo.series
       /\ (memo.series.defined /\ memo'.series.deps # memo.series.deps) =>
             memo'.series.value = getSeriesFromData(timeSeries')
      ]_vars

\* Two instances with different rosters, one rendered twice with the same
\* roster, the other having computed its ids again for a new roster, beside
\* a HostFeesSection that shows the series of its previous result while the
\* selected year is fetched.
C23_Witness ==
    /\ \E i, j \in Instances :
          /\ i # j
          /\ instances[i].renders >= 2
          /\ instances[j].renders > 0
          /\ instances[i].members # instances[j].members
          /\ idsCache[j].resultRef = 2
          /\ idsCache[i].result # idsCache[j].result
    /\ hostFeesElement = "Chart"
    /\ hostQuery.loading
    /\ memo.series.deps = apollo.previousYear
    /\ apollo.previousYear # selectedYear

====
